---- MODULE Spec2Model ----
(***************************************************************************)
(* Model of the welcome bot of src/main.js: the template engine            *)
(* (composeMessage), the config store (node-persist storage plus the       *)
(* in-memory msgTemplates mirror) and the event handlers, which are async  *)
(* functions: each runs atomically up to its next await, and a storage     *)
(* call takes effect at some point between its call and the resumption of  *)
(* the awaiting handler.                                                   *)
(***************************************************************************)
EXTENDS Integers, Sequences, FiniteSets, TLC

\* ------------------------------------------------------------------------
\* bounds of the model

\* handlers that may be suspended at an await at the same time
MaxInFlight == 2
\* atoms following "/change_welcome_message" in a command text
MaxArgLen == 3
\* members listed in one new_chat_members update
MaxNewMembers == 2

\* ------------------------------------------------------------------------
\* values

\* an optional value (a JavaScript value that may be undefined)
None == <<>>
Some(v) == <<v>>

\* BOT_ID = +API_TOKEN.split(':')[0]
BOT_ID == 9

\* BOT_USERNAME = options['bot-username'], as the atoms of a text
BOT_USERNAME == <<"sobat", "_", "bot">>

\* A text is a sequence of atoms. An atom is "$", one of the four placeholder
\* names, the whitespace " ", a markdown special character, or a run of
\* ordinary characters.
PlaceholderNames == {"username", "safeusername", "firstname", "groupname"}

\* members (msg.from, msg.new_chat_members[i], msg.left_chat_member)
Ana == [id |-> 1, is_bot |-> FALSE, first_name |-> <<"Ana">>, username |-> None]
Bob == [id |-> 2, is_bot |-> FALSE, first_name |-> <<"Bob">>,
        username |-> Some(<<"bob", "_", "b">>)]
OtherBot == [id |-> 3, is_bot |-> TRUE, first_name |-> <<"Other">>,
             username |-> Some(<<"other", "_", "bot">>)]
Bot == [id |-> BOT_ID, is_bot |-> TRUE, first_name |-> <<"Sobat">>,
        username |-> Some(BOT_USERNAME)]
Users == {Ana, Bob}
Members == {Ana, Bob, OtherBot, Bot}

\* chats: msg.chat.id, msg.chat.type and msg.chat.title
Groups == {1}
Privates == {3}
Chats == Groups \cup Privates
ChatType(c) == IF c = 1 THEN "group" ELSE IF c = 2 THEN "supergroup" ELSE "private"
Title(c) == IF c = 1 THEN <<"Startup", " ", "Hub">>
            ELSE IF c = 2 THEN <<"A", "_", "B">> ELSE <<>>

\* ------------------------------------------------------------------------
\* built-in messages

ERROR_MESSAGE_PREFIX == <<"*Beep, boop, error!*">>

DEFAULT_MSG_TEMPLATE ==
  <<"*Selamat bergabung*", " ", "$", "firstname", " ", "(", "$", "safeusername",
    ")", " ", "di", " ", "$", "groupname", " ", "yuk perkenalkan diri">>

START_MSG == <<"Add me to a group! :)">>

INTRO_MSG == <<"Hi!", " ", "group", " ", "$", "groupname">>

HELP_MSG == <<"*Selamat datang di bot help*">>

NOT_GROUP_MSG == <<"*Add me to a group first!*">>
NOT_OWNER_MSG ==
  <<"Only the user who introduced me to this group can change the message!">>
EMPTY_MSG == <<"You can't set an empty message!">>
NEW_MSG_SET == <<"New welcome message set! Here's an example:">>

\* ------------------------------------------------------------------------
\* message composers

\* markdown-escape: each special character gets its replacement (the atom
\* "backtick" stands for the grave accent)
EscapeAtom(a) ==
  CASE a = "*" -> "\\*"
    [] a = "#" -> "\\#"
    [] a = "/" -> "\\/"
    [] a = "(" -> "\\("
    [] a = ")" -> "\\)"
    [] a = "[" -> "\\["
    [] a = "]" -> "\\]"
    [] a = "<" -> "&lt;"
    [] a = ">" -> "&gt;"
    [] a = "_" -> "\\_"
    [] a = "backtick" -> "\\backtick"
    [] OTHER -> a

markdownEscape(s) == [i \in 1..Len(s) |-> EscapeAtom(s[i])]

\* `${markdownEscape(member.username)}`
EscapedUsername(member) ==
  IF member.username = None THEN <<"undefined">>
  ELSE markdownEscape(member.username[1])

\* a replace whose pattern /(.)(\$name)/g takes any preceding atom, "$" included
RECURSIVE ReplaceFrom_anyPreceding(_, _, _, _)
ReplaceFrom_anyPreceding(s, i, name, value) ==
  IF i > Len(s) THEN <<>>
  ELSE IF i + 2 <= Len(s) /\ s[i + 1] = "$" /\ s[i + 2] = name
       THEN <<s[i]>> \o value \o ReplaceFrom_anyPreceding(s, i + 3, name, value)
       ELSE <<s[i]>> \o ReplaceFrom_anyPreceding(s, i + 1, name, value)

\* s.replace(/([^$])(\$name)/g, (full, pre) => pre + value): a left-to-right scan
\* for non-overlapping matches of one non-"$" atom, "$" and the name
RECURSIVE ReplaceFrom(_, _, _, _)
ReplaceFrom(s, i, name, value) ==
  IF i > Len(s) THEN <<>>
  ELSE IF i + 2 <= Len(s) /\ s[i] # "$" /\ s[i + 1] = "$" /\ s[i + 2] = name
       THEN <<s[i]>> \o value \o ReplaceFrom(s, i + 3, name, value)
       ELSE <<s[i]>> \o ReplaceFrom(s, i + 1, name, value)

ReplacePlaceholder(s, name, value) == ReplaceFrom(s, 1, name, value)

\* s.replace(/\$\$(username|safeusername|firstname|groupname)/g, ...)
RECURSIVE UnescapeFrom(_, _)
UnescapeFrom(s, i) ==
  IF i > Len(s) THEN <<>>
  ELSE IF i + 2 <= Len(s) /\ s[i] = "$" /\ s[i + 1] = "$"
          /\ s[i + 2] \in PlaceholderNames
       THEN <<"$">> \o markdownEscape(<<s[i + 2]>>) \o UnescapeFrom(s, i + 3)
       ELSE <<s[i]>> \o UnescapeFrom(s, i + 1)

composeMessage(msg, member, groupname) ==
  LET r1 == ReplacePlaceholder(msg, "username", <<"@">> \o EscapedUsername(member))
      r2 == ReplacePlaceholder(r1, "firstname", markdownEscape(member.first_name))
      r3 == ReplacePlaceholder(r2, "groupname", markdownEscape(groupname))
      r4 == ReplacePlaceholder(r3, "safeusername",
              IF member.username # None
              THEN <<"@">> \o markdownEscape(member.username[1])
              ELSE <<"@">> \o markdownEscape(member.first_name))
  IN UnescapeFrom(r4, 1)

composeIntroMessage(owner, groupName) == composeMessage(INTRO_MSG, owner, groupName)

composeErrorMessage(msg) == ERROR_MESSAGE_PREFIX \o <<" ">> \o msg

\* ------------------------------------------------------------------------
\* helpers

isGroup(c) == ChatType(c) \in {"group", "supergroup"}

\* String.prototype.trim
RECURSIVE TrimLeft(_)
TrimLeft(s) == IF s # <<>> /\ Head(s) = " " THEN TrimLeft(Tail(s)) ELSE s
RECURSIVE TrimRight(_)
TrimRight(s) ==
  IF s # <<>> /\ s[Len(s)] = " " THEN TrimRight(SubSeq(s, 1, Len(s) - 1)) ELSE s
trim(s) == TrimRight(TrimLeft(s))

\* a JavaScript truthiness test of an optional string
Truthy(o) == o # None /\ o[1] # <<>>

\* String.prototype.match with an unanchored pattern of literal atoms: the
\* pattern occurs somewhere in the text
Contains(text, pattern) ==
  \E i \in 1..(Len(text) - Len(pattern) + 1) :
    SubSeq(text, i, i + Len(pattern) - 1) = pattern

\* ------------------------------------------------------------------------
\* state

VARIABLES
  storage,       \* node-persist: key -> optional value
  msgTemplates,  \* the in-memory mirror: chat id -> optional template
  handlers,      \* the handler invocations suspended at an await
  sent,          \* the (chatId, msg) pairs given to sendMessage in the last step
  rejected,      \* the await whose rejected promise ended a handler in the last step
  botIn,         \* the platform: whether the bot is a member of the group
  render         \* a call of composeMessage: its arguments and its result

vars == <<storage, msgTemplates, handlers, sent, rejected, botIn, render>>

getMsgTemplateKey(chatId) == <<chatId, "_msg_template">>
getOwnerIdKey(chatId) == <<chatId, "_owner_id">>
Keys == {getMsgTemplateKey(c) : c \in Chats} \cup {getOwnerIdKey(c) : c \in Chats}

Slots == 1..MaxInFlight

NoMember == [id |-> 0, is_bot |-> FALSE, first_name |-> <<>>, username |-> None]

\* a slot holding no suspended handler
Idle == [pc |-> "idle", chat |-> 0, from |-> NoMember, newMember |-> NoMember,
         msgTemplate |-> <<>>, ownerId |-> None, storedTemplate |-> None]

\* no call of composeMessage under examination
NoCall == [template |-> <<>>, member |-> NoMember, groupname |-> <<>>, out |-> None]

FreeSlots == {h \in Slots : handlers[h].pc = "idle"}
\* the slot a newly invoked handler takes
NewSlot == CHOOSE h \in FreeSlots : \A g \in FreeSlots : h <= g

Init ==
  /\ storage = [k \in Keys |-> None]
  /\ msgTemplates = [c \in Chats |-> None]
  /\ handlers = [h \in Slots |-> Idle]
  /\ sent = <<>>
  /\ rejected = None
  /\ botIn = [c \in Groups |-> FALSE]
  /\ render = NoCall

\* bot.sendMessage(chatId, marked(msg)): the message handed to the platform
sendMessage(chatId, msg) == sent' = <<[chat |-> chatId, text |-> msg]>>
sendNothing == sent' = <<>>

sendErrorMessage(chatId, msg) == sendMessage(chatId, composeErrorMessage(msg))

Suspend(h, rec) == handlers' = [handlers EXCEPT ![h] = rec]
Finish(h) == handlers' = [handlers EXCEPT ![h] = Idle]

\* storage.setItem / storage.removeItem taking effect
setItem(key, value) == storage' = [storage EXCEPT ![key] = Some(value)]
removeItem(key) == storage' = [storage EXCEPT ![key] = None]

\* ------------------------------------------------------------------------
\* handlers

notGroupHandler(msg) == sendMessage(msg.chat, NOT_GROUP_MSG)

\* newMemberHandler up to its first await. With the mirror loaded,
\* getMsgTemplate returns without a storage call and the welcome is sent.
newMemberHandler(h, msg) ==
  LET chatId == msg.chat
      groupName == Title(msg.chat)
      newMember == msg.new_chat_members[1]
  IN IF newMember.id = BOT_ID
     THEN /\ sendMessage(chatId, composeIntroMessage(msg.from, groupName))
          /\ Suspend(h, [Idle EXCEPT !.pc = "sendIntro", !.chat = chatId,
                                    !.from = msg.from])
          /\ UNCHANGED <<storage, msgTemplates>>
     ELSE IF ~newMember.is_bot
     THEN IF Truthy(msgTemplates[chatId])
          THEN /\ sendMessage(chatId,
                    composeMessage(msgTemplates[chatId][1], newMember, groupName))
               /\ UNCHANGED <<storage, msgTemplates, handlers>>
          ELSE /\ Suspend(h, [Idle EXCEPT !.pc = "getItem", !.chat = chatId,
                                         !.newMember = newMember])
               /\ sendNothing
               /\ UNCHANGED <<storage, msgTemplates>>
     ELSE /\ sendNothing
          /\ UNCHANGED <<storage, msgTemplates, handlers>>

\* the intro has been delivered: return setOwnerId(chatId, msg.from.id)
newMemberHandler_introSent(h) ==
  /\ handlers[h].pc = "sendIntro"
  /\ Suspend(h, [handlers[h] EXCEPT !.pc = "setOwnerId"])
  /\ sendNothing
  /\ UNCHANGED <<storage, msgTemplates, botIn, render>>
  /\ rejected' = None

\* storage.setItem(getOwnerIdKey(chatId), ownerId) takes effect; the handler ends
setOwnerId(h) ==
  /\ handlers[h].pc = "setOwnerId"
  /\ setItem(getOwnerIdKey(handlers[h].chat), handlers[h].from.id)
  /\ Finish(h)
  /\ sendNothing
  /\ UNCHANGED <<msgTemplates, botIn, render>>
  /\ rejected' = None

\* getMsgTemplate: storage.getItem(getMsgTemplateKey(chatId)) is read
getMsgTemplate_getItem(h) ==
  /\ handlers[h].pc = "getItem"
  /\ Suspend(h, [handlers[h] EXCEPT
                   !.pc = "gotItem",
                   !.storedTemplate = storage[getMsgTemplateKey(handlers[h].chat)]])
  /\ sendNothing
  /\ UNCHANGED <<storage, msgTemplates, botIn, render>>
  /\ rejected' = None

\* a continuation that also persists the template it returns
getMsgTemplate_resume_persisting(h) ==
  LET chatId == handlers[h].chat
      storedTemplate == handlers[h].storedTemplate
      template == IF Truthy(storedTemplate) THEN storedTemplate[1]
                  ELSE DEFAULT_MSG_TEMPLATE
  IN /\ handlers[h].pc = "gotItem"
     /\ msgTemplates' = [msgTemplates EXCEPT ![chatId] = Some(template)]
     /\ setItem(getMsgTemplateKey(chatId), template)
     /\ sendMessage(chatId, composeMessage(template, handlers[h].newMember, Title(chatId)))
     /\ Finish(h)
     /\ UNCHANGED <<botIn, render>>
     /\ rejected' = None

\* getMsgTemplate after its await, then the welcome of newMemberHandler
getMsgTemplate_resume(h) ==
  LET chatId == handlers[h].chat
      storedTemplate == handlers[h].storedTemplate
      template == IF Truthy(storedTemplate) THEN storedTemplate[1]
                  ELSE DEFAULT_MSG_TEMPLATE
  IN /\ handlers[h].pc = "gotItem"
     /\ msgTemplates' = [msgTemplates EXCEPT ![chatId] = Some(template)]
     /\ sendMessage(chatId, composeMessage(template, handlers[h].newMember, Title(chatId)))
     /\ Finish(h)
     /\ UNCHANGED <<storage, botIn, render>>
     /\ rejected' = None

\* memberLeftHandler up to its first await
memberLeftHandler(h, msg) ==
  LET chatId == msg.chat
      member == msg.left_chat_member
  IN /\ IF member.id = BOT_ID
        THEN Suspend(h, [Idle EXCEPT !.pc = "removeOwnerId", !.chat = chatId])
        ELSE UNCHANGED handlers
     /\ sendNothing
     /\ UNCHANGED <<storage, msgTemplates>>

\* storage.removeItem(getOwnerIdKey(chatId)) takes effect
removeOwnerId(h) ==
  /\ handlers[h].pc = "removeOwnerId"
  /\ removeItem(getOwnerIdKey(handlers[h].chat))
  /\ Suspend(h, [handlers[h] EXCEPT !.pc = "removedOwnerId"])
  /\ sendNothing
  /\ UNCHANGED <<msgTemplates, botIn, render>>
  /\ rejected' = None

\* a removeMsgTemplate that empties the whole mirror
removeMsgTemplate_allChats(h) ==
  /\ handlers[h].pc = "removedOwnerId"
  /\ msgTemplates' = [c \in DOMAIN msgTemplates |-> None]
  /\ Suspend(h, [handlers[h] EXCEPT !.pc = "removeItem"])
  /\ sendNothing
  /\ UNCHANGED <<storage, botIn, render>>
  /\ rejected' = None

\* memberLeftHandler resumes: removeMsgTemplate deletes the mirror entry and
\* calls storage.removeItem
removeMsgTemplate(h) ==
  /\ handlers[h].pc = "removedOwnerId"
  /\ msgTemplates' = [msgTemplates EXCEPT ![handlers[h].chat] = None]
  /\ Suspend(h, [handlers[h] EXCEPT !.pc = "removeItem"])
  /\ sendNothing
  /\ UNCHANGED <<storage, botIn, render>>
  /\ rejected' = None

\* storage.removeItem(`${chatId}_msg_template`) takes effect; the handler ends
removeMsgTemplate_removeItem(h) ==
  /\ handlers[h].pc = "removeItem"
  /\ removeItem(getMsgTemplateKey(handlers[h].chat))
  /\ Finish(h)
  /\ sendNothing
  /\ UNCHANGED <<msgTemplates, botIn, render>>
  /\ rejected' = None

changeWelcomeMessageEmptyHandler(msg) ==
  IF ~isGroup(msg.chat) THEN notGroupHandler(msg)
  ELSE sendErrorMessage(msg.chat, EMPTY_MSG)

helpHandler(msg) ==
  LET mentionRegExp == <<"/help", "@">> \o BOT_USERNAME
      withMention == Contains(msg.text, mentionRegExp)
  IN IF isGroup(msg.chat) /\ ~withMention THEN sendNothing
     ELSE sendMessage(msg.chat, HELP_MSG)

startHandler(msg) ==
  IF isGroup(msg.chat) THEN sendNothing
  ELSE sendMessage(msg.chat, START_MSG)

\* changeWelcomeMessageHandler without its isGroup test
changeWelcomeMessageHandler_anyChat(h, msg, match) ==
  /\ Suspend(h, [Idle EXCEPT !.pc = "getOwnerId", !.chat = msg.chat,
                            !.from = msg.from, !.msgTemplate = match])
  /\ sendNothing
  /\ UNCHANGED <<storage, msgTemplates>>

\* changeWelcomeMessageHandler up to its first await
changeWelcomeMessageHandler(h, msg, match) ==
  IF ~isGroup(msg.chat)
  THEN /\ notGroupHandler(msg)
       /\ UNCHANGED <<storage, msgTemplates, handlers>>
  ELSE /\ Suspend(h, [Idle EXCEPT !.pc = "getOwnerId", !.chat = msg.chat,
                                 !.from = msg.from, !.msgTemplate = match])
       /\ sendNothing
       /\ UNCHANGED <<storage, msgTemplates>>

\* getOwnerId: storage.getItem(getOwnerIdKey(chatId)) is read
getOwnerId(h) ==
  /\ handlers[h].pc = "getOwnerId"
  /\ Suspend(h, [handlers[h] EXCEPT
                   !.pc = "gotOwnerId",
                   !.ownerId = storage[getOwnerIdKey(handlers[h].chat)]])
  /\ sendNothing
  /\ UNCHANGED <<storage, msgTemplates, botIn, render>>
  /\ rejected' = None

\* the continuation without the ownership test
changeWelcomeMessageHandler_gotOwnerId_anyMember(h) ==
  LET chatId == handlers[h].chat
      msgTemplate == trim(handlers[h].msgTemplate)
  IN /\ handlers[h].pc = "gotOwnerId"
     /\ IF Len(msgTemplate) = 0
        THEN /\ changeWelcomeMessageEmptyHandler([chat |-> chatId])
             /\ Finish(h)
        ELSE /\ Suspend(h, [handlers[h] EXCEPT !.pc = "setItem",
                                              !.msgTemplate = msgTemplate])
             /\ sendNothing
     /\ UNCHANGED <<storage, msgTemplates, botIn, render>>
     /\ rejected' = None

\* the continuation without the test for an empty template
changeWelcomeMessageHandler_gotOwnerId_anyText(h) ==
  LET chatId == handlers[h].chat
      owner == handlers[h].from
      msgTemplate == trim(handlers[h].msgTemplate)
  IN /\ handlers[h].pc = "gotOwnerId"
     /\ IF Some(owner.id) # handlers[h].ownerId
        THEN /\ sendErrorMessage(chatId, NOT_OWNER_MSG)
             /\ Finish(h)
        ELSE /\ Suspend(h, [handlers[h] EXCEPT !.pc = "setItem",
                                              !.msgTemplate = msgTemplate])
             /\ sendNothing
     /\ UNCHANGED <<storage, msgTemplates, botIn, render>>
     /\ rejected' = None

\* the continuation with the argument as captured, not trimmed
changeWelcomeMessageHandler_gotOwnerId_untrimmed(h) ==
  LET chatId == handlers[h].chat
      owner == handlers[h].from
      msgTemplate == handlers[h].msgTemplate
  IN /\ handlers[h].pc = "gotOwnerId"
     /\ IF Some(owner.id) # handlers[h].ownerId
        THEN /\ sendErrorMessage(chatId, NOT_OWNER_MSG)
             /\ Finish(h)
        ELSE IF Len(msgTemplate) = 0
        THEN /\ changeWelcomeMessageEmptyHandler([chat |-> chatId])
             /\ Finish(h)
        ELSE /\ Suspend(h, [handlers[h] EXCEPT !.pc = "setItem",
                                              !.msgTemplate = msgTemplate])
             /\ sendNothing
     /\ UNCHANGED <<storage, msgTemplates, botIn, render>>
     /\ rejected' = None

\* changeWelcomeMessageHandler after await getOwnerId, up to the setItem call
changeWelcomeMessageHandler_gotOwnerId(h) ==
  LET chatId == handlers[h].chat
      owner == handlers[h].from
      msgTemplate == trim(handlers[h].msgTemplate)
  IN /\ handlers[h].pc = "gotOwnerId"
     /\ IF Some(owner.id) # handlers[h].ownerId
        THEN /\ sendErrorMessage(chatId, NOT_OWNER_MSG)
             /\ Finish(h)
        ELSE IF Len(msgTemplate) = 0
        THEN /\ changeWelcomeMessageEmptyHandler([chat |-> chatId])
             /\ Finish(h)
        ELSE /\ Suspend(h, [handlers[h] EXCEPT !.pc = "setItem",
                                              !.msgTemplate = msgTemplate])
             /\ sendNothing
     /\ UNCHANGED <<storage, msgTemplates, botIn, render>>
     /\ rejected' = None

\* a setMsgTemplate that goes on before its write has taken effect
setMsgTemplate_setItem_notAwaited(h) ==
  /\ handlers[h].pc = "setItem"
  /\ Suspend(h, [handlers[h] EXCEPT !.pc = "setItemDone"])
  /\ sendNothing
  /\ UNCHANGED <<storage, msgTemplates, botIn, render>>
  /\ rejected' = None

\* setMsgTemplate: storage.setItem(getMsgTemplateKey(chatId), msgTemplate) takes effect
setMsgTemplate_setItem(h) ==
  /\ handlers[h].pc = "setItem"
  /\ setItem(getMsgTemplateKey(handlers[h].chat), handlers[h].msgTemplate)
  /\ Suspend(h, [handlers[h] EXCEPT !.pc = "setItemDone"])
  /\ sendNothing
  /\ UNCHANGED <<msgTemplates, botIn, render>>
  /\ rejected' = None

\* setMsgTemplate after its await, then the confirmation of the handler
setMsgTemplate_resume(h) ==
  LET chatId == handlers[h].chat
      msgTemplate == handlers[h].msgTemplate
      exampleMessage == composeMessage(msgTemplate, handlers[h].from, Title(chatId))
  IN /\ handlers[h].pc = "setItemDone"
     /\ msgTemplates' = [msgTemplates EXCEPT ![chatId] = Some(msgTemplate)]
     /\ sendMessage(chatId, NEW_MSG_SET \o exampleMessage)
     /\ Finish(h)
     /\ UNCHANGED <<storage, botIn, render>>
     /\ rejected' = None

\* ------------------------------------------------------------------------
\* the platform's updates, dispatched as run() registers the handlers

RECURSIVE SeqsUpTo(_, _)
SeqsUpTo(S, n) ==
  IF n = 0 THEN {<<>>}
  ELSE LET shorter == SeqsUpTo(S, n - 1)
       IN shorter \cup {Append(s, x) : s \in shorter, x \in S}

NoRepeat(s) == \A i, j \in 1..Len(s) : i # j => s[i] # s[j]

\* the lists a new_chat_members update may carry
NewMemberLists == {s \in SeqsUpTo(Members, MaxNewMembers) : s # <<>> /\ NoRepeat(s)}

\* the texts that may follow "/change_welcome_message" in a message
ArgChars == {" ", "a"}
Args == SeqsUpTo(ArgChars, MaxArgLen)

CanInvoke == FreeSlots # {}

\* bot.on('new_chat_members', newMemberHandler)
NewChatMembers(c, from, members) ==
  LET botJoins == \E i \in 1..Len(members) : members[i] = Bot
  IN /\ CanInvoke
     /\ IF botJoins THEN ~botIn[c] ELSE botIn[c]
     /\ botIn' = [botIn EXCEPT ![c] = TRUE]
     /\ rejected' = None
     /\ UNCHANGED render
     /\ newMemberHandler(NewSlot, [chat |-> c, from |-> from,
                                   new_chat_members |-> members])

\* bot.on('left_chat_member', memberLeftHandler)
LeftChatMember(c, member) ==
  /\ CanInvoke
  /\ botIn[c]
  /\ botIn' = [botIn EXCEPT ![c] = (member # Bot)]
  /\ rejected' = None
  /\ UNCHANGED render
  /\ memberLeftHandler(NewSlot, [chat |-> c, left_chat_member |-> member])

\* bot.onText(changeMsgCommandRegExp, ...) and bot.onText(changeMsgCommandRegExpEmpty, ...):
\* /\/change_welcome_message\s([\s\S]+)/ captures what follows one whitespace,
\* /\/change_welcome_message$/ matches the bare command
ChangeWelcomeMessage(c, from, arg) ==
  /\ CanInvoke
  /\ isGroup(c) => botIn[c]
  /\ IF Len(arg) >= 2 /\ arg[1] = " "
     THEN changeWelcomeMessageHandler(NewSlot, [chat |-> c, from |-> from], Tail(arg))
     ELSE IF Len(arg) = 0
     THEN /\ changeWelcomeMessageEmptyHandler([chat |-> c, from |-> from])
          /\ UNCHANGED <<storage, msgTemplates, handlers>>
     ELSE /\ sendNothing
          /\ UNCHANGED <<storage, msgTemplates, handlers>>
  /\ UNCHANGED <<botIn, render>>
  /\ rejected' = None

\* what may follow "/help" in a text: nothing, the bot's handle, the handle of
\* another bot, and a handle that begins with the bot's handle
HelpMentions ==
  {<<>>, <<"@">> \o BOT_USERNAME, <<"@">> \o OtherBot.username[1],
   <<"@">> \o BOT_USERNAME \o <<"_", "dev", "_", "bot">>}

\* bot.onText(helpCommandRegExp, helpHandler): /\/help(?:@BOT_USERNAME)?/
\* matches every text that holds "/help"
Help(c, mention) ==
  /\ isGroup(c) => botIn[c]
  /\ helpHandler([chat |-> c, text |-> <<"/help">> \o mention])
  /\ rejected' = None
  /\ UNCHANGED <<storage, msgTemplates, handlers, botIn, render>>

\* bot.onText(/\/start/, startHandler)
Start(c) ==
  /\ isGroup(c) => botIn[c]
  /\ startHandler([chat |-> c, text |-> <<"/start">>])
  /\ rejected' = None
  /\ UNCHANGED <<storage, msgTemplates, handlers, botIn, render>>

Next ==
  \/ \E c \in Groups, from \in Users, members \in NewMemberLists :
       NewChatMembers(c, from, members)
  \/ \E c \in Groups, member \in Members : LeftChatMember(c, member)
  \/ \E c \in Chats, from \in Users, arg \in Args : ChangeWelcomeMessage(c, from, arg)
  \/ \E h \in Slots : newMemberHandler_introSent(h)
  \/ \E h \in Slots : setOwnerId(h)
  \/ \E h \in Slots : getMsgTemplate_getItem(h)
  \/ \E h \in Slots : getMsgTemplate_resume(h)
  \/ \E h \in Slots : removeOwnerId(h)
  \/ \E h \in Slots : removeMsgTemplate(h)
  \/ \E h \in Slots : removeMsgTemplate_removeItem(h)
  \/ \E h \in Slots : getOwnerId(h)
  \/ \E h \in Slots : changeWelcomeMessageHandler_gotOwnerId(h)
  \/ \E h \in Slots : setMsgTemplate_setItem(h)
  \/ \E h \in Slots : setMsgTemplate_resume(h)

Spec == Init /\ [][Next]_vars

\* ------------------------------------------------------------------------
\* storage failures: the promise of a storage call is rejected. No handler
\* catches a rejection, so the awaiting async function ends there and its own
\* promise is rejected.

Reject(h) ==
  /\ Finish(h)
  /\ sendNothing
  /\ rejected' = Some(handlers[h].pc)
  /\ UNCHANGED <<storage, msgTemplates, botIn, render>>

\* await storage.getItem(getMsgTemplateKey(chatId)) in getMsgTemplate rejects
getMsgTemplate_getItemFails(h) == handlers[h].pc = "getItem" /\ Reject(h)
\* a setMsgTemplate that has written the mirror before its durable write fails
setMsgTemplate_setItemFails_mirrorFirst(h) ==
  /\ handlers[h].pc = "setItem"
  /\ msgTemplates' = [msgTemplates EXCEPT ![handlers[h].chat] = Some(handlers[h].msgTemplate)]
  /\ Finish(h)
  /\ sendNothing
  /\ rejected' = Some(handlers[h].pc)
  /\ UNCHANGED <<storage, botIn, render>>

\* await storage.setItem(getMsgTemplateKey(chatId), msgTemplate) rejects
setMsgTemplate_setItemFails(h) == handlers[h].pc = "setItem" /\ Reject(h)
\* storage.getItem(getOwnerIdKey(chatId)) rejects
getOwnerId_fails(h) == handlers[h].pc = "getOwnerId" /\ Reject(h)
\* storage.setItem(getOwnerIdKey(chatId), ownerId) rejects
setOwnerId_fails(h) == handlers[h].pc = "setOwnerId" /\ Reject(h)
\* storage.removeItem(getOwnerIdKey(chatId)) rejects
removeOwnerId_fails(h) == handlers[h].pc = "removeOwnerId" /\ Reject(h)
\* storage.removeItem(`${chatId}_msg_template`) rejects
removeMsgTemplate_removeItemFails(h) == handlers[h].pc = "removeItem" /\ Reject(h)

NextFailure ==
  \/ \E h \in Slots : getMsgTemplate_getItemFails(h)
  \/ \E h \in Slots : setMsgTemplate_setItemFails(h)
  \/ \E h \in Slots : getOwnerId_fails(h)
  \/ \E h \in Slots : setOwnerId_fails(h)
  \/ \E h \in Slots : removeOwnerId_fails(h)
  \/ \E h \in Slots : removeMsgTemplate_removeItemFails(h)
  \/ Next

\* the bot over a storage whose calls may fail
SpecFailure == Init /\ [][NextFailure]_vars

\* ------------------------------------------------------------------------
\* the bot in two groups at once, with the updates of groups only and one
\* update of each kind per member

IsolationGroups == {1, 2}
IsolationKeys ==
  {getMsgTemplateKey(c) : c \in IsolationGroups} \cup {getOwnerIdKey(c) : c \in IsolationGroups}
\* the new_chat_members lists and the command argument of these updates
IsolationMemberLists == {<<Bot>>, <<Bob>>}
IsolationArgs == {<<" ", "a">>}

InitIsolation ==
  /\ storage = [k \in IsolationKeys |-> None]
  /\ msgTemplates = [c \in IsolationGroups |-> None]
  /\ handlers = [h \in Slots |-> Idle]
  /\ sent = <<>>
  /\ rejected = None
  /\ botIn = [c \in IsolationGroups |-> FALSE]
  /\ render = NoCall

NextIsolation ==
  \/ \E c \in IsolationGroups, from \in Users, members \in IsolationMemberLists :
       NewChatMembers(c, from, members)
  \/ \E c \in IsolationGroups : LeftChatMember(c, Bot)
  \/ \E c \in IsolationGroups, from \in Users, arg \in IsolationArgs :
       ChangeWelcomeMessage(c, from, arg)
  \/ \E h \in Slots : newMemberHandler_introSent(h)
  \/ \E h \in Slots : setOwnerId(h)
  \/ \E h \in Slots : getMsgTemplate_getItem(h)
  \/ \E h \in Slots : getMsgTemplate_resume(h)
  \/ \E h \in Slots : removeOwnerId(h)
  \/ \E h \in Slots : removeMsgTemplate(h)
  \/ \E h \in Slots : removeMsgTemplate_removeItem(h)
  \/ \E h \in Slots : getOwnerId(h)
  \/ \E h \in Slots : changeWelcomeMessageHandler_gotOwnerId(h)
  \/ \E h \in Slots : setMsgTemplate_setItem(h)
  \/ \E h \in Slots : setMsgTemplate_resume(h)

SpecIsolation == InitIsolation /\ [][NextIsolation]_vars

\* the bot with its help and start commands
NextCommands ==
  \/ \E c \in Chats, mention \in HelpMentions : Help(c, mention)
  \/ \E c \in Chats : Start(c)
  \/ Next

SpecCommands == Init /\ [][NextCommands]_vars

\* ------------------------------------------------------------------------
\* the template engine on its own: composeMessage applied to a template, a
\* member and a group name

\* atoms of a template given to composeMessage
MaxTemplateLen == 4

\* a member whose first name holds a placeholder token
Cid == [id |-> 4, is_bot |-> FALSE, first_name |-> <<"C", "$", "groupname">>,
        username |-> None]
\* a member whose first name holds a doubled-dollar token
Dee == [id |-> 5, is_bot |-> FALSE, first_name |-> <<"D", "$", "$", "firstname">>,
        username |-> Some(<<"dee">>)]
RenderMembers == {Ana, Bob, Cid, Dee}
\* msg.chat.title: an ordinary title, and one holding a placeholder token
RenderGroupNames == {Title(1), <<"G", "$", "safeusername">>}
TemplateAtoms == {"x", "$"} \cup PlaceholderNames
Templates == SeqsUpTo(TemplateAtoms, MaxTemplateLen)

InitRender ==
  /\ storage = [k \in Keys |-> None]
  /\ msgTemplates = [c \in Chats |-> None]
  /\ handlers = [h \in Slots |-> Idle]
  /\ sent = <<>>
  /\ rejected = None
  /\ botIn = [c \in Groups |-> FALSE]
  /\ render \in [template : Templates, member : RenderMembers,
                 groupname : RenderGroupNames, out : {None}]

\* the call composeMessage(render.template, render.member, render.groupname)
Render ==
  /\ render.out = None
  /\ render' = [render EXCEPT
                  !.out = Some(composeMessage(render.template, render.member,
                                              render.groupname))]
  /\ UNCHANGED <<storage, msgTemplates, handlers, sent, rejected, botIn>>

NextRender == Render

SpecRender == InitRender /\ [][NextRender]_vars

\* ------------------------------------------------------------------------
\* what the config store holds and would return

\* what getOwnerId(chatId) resolves to when storage is read now
OwnerRecord(c) == storage[getOwnerIdKey(c)]
\* the durable template record of the chat
TemplateRecord(c) == storage[getMsgTemplateKey(c)]
\* what getMsgTemplate(chatId) returns when it runs to its end now
TemplateReturned(c) ==
  IF Truthy(msgTemplates[c]) THEN msgTemplates[c][1]
  ELSE IF Truthy(TemplateRecord(c)) THEN TemplateRecord(c)[1]
  ELSE DEFAULT_MSG_TEMPLATE

\* handler h takes this step
Steps(h) == handlers'[h] # handlers[h]
\* the template of the chat, durable or mirrored, differs after this step
TemplateChanges(c) ==
  \/ TemplateRecord(c)' # TemplateRecord(c)
  \/ msgTemplates'[c] # msgTemplates[c]
InFlight(c) == {h \in Slots : handlers[h].pc # "idle" /\ handlers[h].chat = c}

Message(c, text) == <<[chat |-> c, text |-> text]>>
NotOwnerError(c) == Message(c, composeErrorMessage(NOT_OWNER_MSG))
EmptyError(c) == Message(c, composeErrorMessage(EMPTY_MSG))

\* ------------------------------------------------------------------------
\* C1: the change-welcome-message command changes the template of a chat
\* (the durable record or the mirror entry) only when the issuing member's id
\* equals the owner id stored for the chat when the change is made.
C1_OnlyCurrentOwnerChangesTemplate ==
  [][\A h \in Slots, c \in Groups :
       (/\ handlers[h].pc \in {"setItem", "setItemDone"}
        /\ handlers[h].chat = c
        /\ Steps(h)
        /\ TemplateChanges(c))
       => OwnerRecord(c) = Some(handlers[h].from.id)]_vars

\* ------------------------------------------------------------------------
\* C2: a change-welcome-message command with text, issued in a group by a
\* member whose id differs from the owner id read from the chat's record, gets
\* the permission-denied error sent to that chat, and no step of its handler
\* changes the owner record, the durable template or the mirror.
C2_NonOwnerDeniedNoMutation ==
  [][\A h \in Slots :
       /\ (handlers[h].pc = "idle" /\ handlers'[h].pc = "getOwnerId")
            => UNCHANGED <<storage, msgTemplates>>
       /\ (handlers[h].pc = "getOwnerId" /\ Steps(h))
            => UNCHANGED <<storage, msgTemplates>>
       /\ (/\ handlers[h].pc = "gotOwnerId"
           /\ Steps(h)
           /\ handlers[h].ownerId # Some(handlers[h].from.id))
            => /\ sent' = NotOwnerError(handlers[h].chat)
               /\ handlers'[h] = Idle
               /\ UNCHANGED <<storage, msgTemplates>>]_vars

\* a configured group has just been sent the permission-denied error
C2_Witness ==
  \E c \in Groups :
    /\ sent = NotOwnerError(c)
    /\ OwnerRecord(c) # None
    /\ InFlight(c) = {}

\* ------------------------------------------------------------------------
\* C10: a change-welcome-message command that reaches a handler outside a
\* group gets the "not a group" notice; no handler is left suspended (the owner
\* record is not read), and storage and the mirror are unchanged, whatever the
\* argument text. No suspended handler ever belongs to a chat that is no group.
HandlerMatches(arg) == Len(arg) = 0 \/ (Len(arg) >= 2 /\ arg[1] = " ")

C10_OutsideGroupNoticeOnly ==
  [][/\ \A c \in Chats, from \in Users, arg \in Args :
          (~isGroup(c) /\ HandlerMatches(arg) /\ ChangeWelcomeMessage(c, from, arg))
          => /\ sent' = Message(c, NOT_GROUP_MSG)
             /\ UNCHANGED <<storage, msgTemplates, handlers>>
     /\ \A h \in Slots : handlers'[h].pc # "idle" => isGroup(handlers'[h].chat)]_vars

\* the notice has just been sent to the private chat while a group is configured
C10_Witness ==
  \E c \in Chats :
    /\ ~isGroup(c)
    /\ sent = Message(c, NOT_GROUP_MSG)
    /\ \E g \in Groups : OwnerRecord(g) # None /\ TemplateRecord(g) # None

\* ------------------------------------------------------------------------
\* C3 as claimed: a change-welcome-message command issued inside a group with
\* no argument or with a whitespace-only argument gets the "message cannot be
\* empty" error, and storage and the mirror stay as they are.
C3_EmptyArgumentAlwaysEmptyError ==
  [][/\ \A c \in Groups, from \in Users :
          ChangeWelcomeMessage(c, from, <<>>)
          => sent' = EmptyError(c) /\ UNCHANGED <<storage, msgTemplates, handlers>>
     /\ \A h \in Slots :
          (/\ handlers[h].pc = "gotOwnerId"
           /\ Steps(h)
           /\ trim(handlers[h].msgTemplate) = <<>>)
          => sent' = EmptyError(handlers[h].chat) /\ UNCHANGED <<storage, msgTemplates>>]_vars

\* C3 as amended: with no argument the command gets the "message cannot be
\* empty" error whoever issues it and whether or not the chat has an owner;
\* with a captured whitespace-only argument it gets that error only when the
\* issuer's id equals the owner id read from the chat's record, and the
\* permission-denied error otherwise. In every case storage and the mirror
\* stay as they are.
C3_EmptyArgumentError ==
  [][/\ \A c \in Groups, from \in Users :
          ChangeWelcomeMessage(c, from, <<>>)
          => sent' = EmptyError(c) /\ UNCHANGED <<storage, msgTemplates, handlers>>
     /\ \A h \in Slots :
          (/\ handlers[h].pc = "idle"
           /\ handlers'[h].pc = "getOwnerId"
           /\ trim(handlers'[h].msgTemplate) = <<>>)
          => UNCHANGED <<storage, msgTemplates>>
     /\ \A h \in Slots :
          (/\ handlers[h].pc \in {"getOwnerId", "gotOwnerId"}
           /\ Steps(h)
           /\ trim(handlers[h].msgTemplate) = <<>>)
          => /\ UNCHANGED <<storage, msgTemplates>>
             /\ handlers[h].pc = "gotOwnerId"
                  => /\ handlers'[h] = Idle
                     /\ sent' = IF handlers[h].ownerId = Some(handlers[h].from.id)
                                THEN EmptyError(handlers[h].chat)
                                ELSE NotOwnerError(handlers[h].chat)]_vars

\* the "message cannot be empty" error has just been sent to a group that has
\* an owner and a stored template
C3_Witness ==
  \E c \in Groups :
    /\ sent = EmptyError(c)
    /\ OwnerRecord(c) # None
    /\ TemplateRecord(c) # None

\* ------------------------------------------------------------------------
\* C4: whenever no handler of a chat is in flight and the chat has a durable
\* template (a setTemplate has succeeded), a mirror entry that is present
\* equals the durable template.
C4_MirrorEqualsStorage ==
  \A c \in Chats :
    (InFlight(c) = {} /\ TemplateRecord(c) # None /\ msgTemplates[c] # None)
    => msgTemplates[c] = TemplateRecord(c)

\* ------------------------------------------------------------------------
\* C5: once the bot has left a group and every bot-removed handler of the
\* group has completed, the owner record and the template record are gone:
\* getOwnerId resolves to nothing and getTemplate returns the default template.
LeftInFlight(c) ==
  {h \in InFlight(c) : handlers[h].pc \in {"removeOwnerId", "removedOwnerId", "removeItem"}}

C5_RemovedAfterBotLeft ==
  \A c \in Groups :
    (~botIn[c] /\ LeftInFlight(c) = {})
    => /\ OwnerRecord(c) = None
       /\ TemplateRecord(c) = None
       /\ TemplateReturned(c) = DEFAULT_MSG_TEMPLATE

\* ------------------------------------------------------------------------
\* C6: the bot-join handler sends the introduction before it writes anything,
\* and when it completes the owner record holds the inviter's id and
\* getTemplate returns the default template.
C6_JoinCreatesDefaultConfig ==
  [][\A h \in Slots, c \in Groups :
       /\ (handlers[h].pc = "idle" /\ handlers'[h].pc = "sendIntro"
           /\ handlers'[h].chat = c)
            => /\ sent' = Message(c, composeIntroMessage(handlers'[h].from, Title(c)))
               /\ UNCHANGED <<storage, msgTemplates>>
       /\ (handlers[h].pc = "setOwnerId" /\ handlers[h].chat = c /\ Steps(h))
            => /\ OwnerRecord(c)' = Some(handlers[h].from.id)
               /\ TemplateReturned(c)' = DEFAULT_MSG_TEMPLATE]_vars

\* ------------------------------------------------------------------------
\* C7: the stored owner id of a chat never changes from one member id to a
\* different member id in one step (only by way of its removal).
C7_OwnerIdImmutable ==
  [][\A c \in Groups :
       (OwnerRecord(c) # None /\ OwnerRecord(c)' # None)
       => OwnerRecord(c)' = OwnerRecord(c)]_vars

\* ------------------------------------------------------------------------
\* C8: for every new-member update that does not list the bot itself, every
\* listed member that is not a bot is sent a welcome rendered from the chat's
\* template (at once, or by the handler suspended for it), and no welcome is
\* addressed to a listed bot.
Welcome(c, template, member) == Message(c, composeMessage(template, member, Title(c)))

C8_EveryNewMemberWelcomed ==
  [][\A c \in Groups, from \in Users, members \in NewMemberLists :
       ((\A i \in 1..Len(members) : members[i] # Bot)
        /\ NewChatMembers(c, from, members))
       => \A i \in 1..Len(members) :
            IF members[i].is_bot
            THEN /\ sent' # Welcome(c, TemplateReturned(c), members[i])
                 /\ \A h \in Slots : Steps(h) => handlers'[h].newMember # members[i]
            ELSE \/ sent' = Welcome(c, TemplateReturned(c), members[i])
                 \/ \E h \in Slots : /\ Steps(h)
                                     /\ handlers'[h].pc = "getItem"
                                     /\ handlers'[h].newMember = members[i]]_vars

\* ------------------------------------------------------------------------
\* C9: when no handler is in flight and the chat has the durable template T
\* (the last confirmed change), a member who joins now is welcomed from T,
\* either at once or by a handler suspended to read the template.
C9_WelcomeUsesStoredTemplate ==
  [][\A c \in Groups, from \in Users, members \in NewMemberLists :
       (/\ \A h \in Slots : handlers[h].pc = "idle"
        /\ TemplateRecord(c) # None
        /\ ~members[1].is_bot
        /\ NewChatMembers(c, from, members))
       => \/ sent' = Welcome(c, TemplateRecord(c)[1], members[1])
          \/ \E h \in Slots : handlers'[h].pc = "getItem"]_vars

\* ------------------------------------------------------------------------
\* the template engine

\* the value composeMessage puts in place of the placeholder called name
Substitution(name, member, groupname) ==
  CASE name = "username" -> <<"@">> \o EscapedUsername(member)
    [] name = "firstname" -> markdownEscape(member.first_name)
    [] name = "groupname" -> markdownEscape(groupname)
    [] name = "safeusername" ->
         IF member.username # None
         THEN <<"@">> \o markdownEscape(member.username[1])
         ELSE <<"@">> \o markdownEscape(member.first_name)

\* composeMessage has been applied to the template
Rendered(template) == render.out # None /\ render.template = template
RenderOut == render.out[1]
SubstitutionOf(name) == Substitution(name, render.member, render.groupname)

\* C11: render replaces a placeholder that stands at the start of the template
\* with its substitution value: render("$username", m, g) is "@" followed by
\* the escaped handle ("@undefined" without a handle), "$firstname" gives the
\* escaped first name, "$groupname" the escaped group name and "$safeusername"
\* "@" followed by the escaped handle, or by the escaped first name when the
\* member has no handle.
C11_PlaceholderAtStartReplaced ==
  \A n \in PlaceholderNames :
    Rendered(<<"$", n>>) => RenderOut = SubstitutionOf(n)

\* C12: the doubled-dollar form of a placeholder renders as the literal
\* placeholder text, whatever the member and the group name are:
\* render("$$username", m, g) = "$username", and likewise for the other three
\* names, also after a preceding ordinary character.
C12_EscapedFormIsLiteral ==
  \A n \in PlaceholderNames :
    /\ Rendered(<<"$", "$", n>>) => RenderOut = <<"$", n>>
    /\ Rendered(<<"x", "$", "$", n>>) => RenderOut = <<"x", "$", n>>

C12_Witness ==
  /\ Rendered(<<"$", "$", "username">>)
  /\ render.member = Bob
  /\ RenderOut = <<"$", "username">>

\* C13: a placeholder token that occurs only inside a substituted value is
\* never expanded or rewritten: the template "x$name" renders as "x" followed
\* by the escaped value of the placeholder, whatever that value holds.
C13_InsertedValuesNotRescanned ==
  \A n \in PlaceholderNames :
    Rendered(<<"x", "$", n>>) => RenderOut = <<"x">> \o SubstitutionOf(n)

\* ------------------------------------------------------------------------
\* help and start commands

\* the text addresses the bot: "/help" is followed by "@" and exactly the bot's
\* configured handle
MentionsBot(mention) == mention = <<"@">> \o BOT_USERNAME
HelpMessage(c) == Message(c, HELP_MSG)
StartMessage(c) == Message(c, START_MSG)

\* C14: a start command inside a group never produces a message; a help
\* command inside a group produces the help message only if its text mentions
\* the bot's configured handle; outside groups both always produce their
\* message; neither command changes owner, template or mirror state.
C14_HelpStartFilteredByContext ==
  [][/\ \A c \in Chats :
          Start(c) => /\ sent' = (IF isGroup(c) THEN <<>> ELSE StartMessage(c))
                      /\ UNCHANGED <<storage, msgTemplates>>
     /\ \A c \in Chats, mention \in HelpMentions :
          Help(c, mention) =>
            /\ isGroup(c) /\ sent' = HelpMessage(c) => MentionsBot(mention)
            /\ ~isGroup(c) => sent' = HelpMessage(c)
            /\ UNCHANGED <<storage, msgTemplates>>]_vars

\* the parts of C14 that do not depend on how a mention is recognised
C14_StartSilentInGroupsAndStateless ==
  [][/\ \A c \in Chats :
          Start(c) => /\ sent' = (IF isGroup(c) THEN <<>> ELSE StartMessage(c))
                      /\ UNCHANGED <<storage, msgTemplates>>
     /\ \A c \in Chats, mention \in HelpMentions :
          Help(c, mention) =>
            /\ isGroup(c) /\ mention = <<>> => sent' = <<>>
            /\ ~isGroup(c) => sent' = HelpMessage(c)
            /\ UNCHANGED <<storage, msgTemplates>>]_vars

\* ------------------------------------------------------------------------
\* getMsgTemplate

\* handler h is inside getMsgTemplate, at or after its storage read
InGetMsgTemplate(h) == handlers[h].pc \in {"getItem", "gotItem"}
\* the template getMsgTemplate returns after a read that resolved to stored
ReadThrough(stored) == IF Truthy(stored) THEN stored[1] ELSE DEFAULT_MSG_TEMPLATE

\* C15 as stated: getTemplate never fails, that is, no call of it ends by a
\* rejection.
C15_GetTemplateNeverFails ==
  [][\A h \in Slots : (InGetMsgTemplate(h) /\ Steps(h)) => rejected' = None]_vars

\* C15: getTemplate never writes durable storage and fails only when its
\* durable read fails. With a mirror entry present it returns that entry
\* without a storage call; on a miss it reads the chat's template key, returns
\* the value read and caches it in the mirror; when the read finds nothing it
\* returns the default template and caches it in the mirror without persisting
\* it. A failed read ends the call with nothing cached and nothing sent.
C15_ReadThrough ==
  [][\A c \in Groups :
       \* storage is consulted only when the mirror has no entry for the chat
       /\ \A h \in Slots :
            (handlers[h].pc = "idle" /\ handlers'[h].pc = "getItem"
             /\ handlers'[h].chat = c)
            => /\ ~Truthy(msgTemplates[c])
               /\ sent' = <<>>
               /\ UNCHANGED <<storage, msgTemplates>>
       \* a welcome sent without a storage call is made from the mirror entry
       /\ (UNCHANGED handlers /\ sent' # <<>> /\ sent'[1].chat = c
           /\ sent' # EmptyError(c))
          => /\ Truthy(msgTemplates[c])
             /\ \E m \in Users : sent' = Welcome(c, msgTemplates[c][1], m)
             /\ UNCHANGED <<storage, msgTemplates>>
       \* the storage read and the continuation of getMsgTemplate
       /\ \A h \in Slots :
            (InGetMsgTemplate(h) /\ handlers[h].chat = c /\ Steps(h))
            => /\ UNCHANGED storage
               /\ handlers[h].pc = "getItem" =>
                    \/ /\ handlers'[h].pc = "gotItem"
                       /\ handlers'[h].storedTemplate = TemplateRecord(c)
                       /\ rejected' = None
                       /\ sent' = <<>>
                       /\ UNCHANGED msgTemplates
                    \/ /\ rejected' # None
                       /\ handlers'[h] = Idle
                       /\ sent' = <<>>
                       /\ UNCHANGED msgTemplates
               /\ handlers[h].pc = "gotItem" =>
                    LET template == ReadThrough(handlers[h].storedTemplate)
                    IN /\ msgTemplates'[c] = Some(template)
                       /\ sent' = Welcome(c, template, handlers[h].newMember)
                       /\ rejected' = None
                       /\ handlers'[h] = Idle]_vars

\* the default template has been returned for Ana and cached, not persisted
C15_Witness ==
  \E c \in Groups :
    /\ sent = Welcome(c, DEFAULT_MSG_TEMPLATE, Ana)
    /\ msgTemplates[c] = Some(DEFAULT_MSG_TEMPLATE)
    /\ TemplateRecord(c) = None

\* ------------------------------------------------------------------------
\* setMsgTemplate

\* the confirmation of the change handler for a template set by member from
Confirmation(c, template, from) ==
  Message(c, NEW_MSG_SET \o composeMessage(template, from, Title(c)))
\* the message sent by the step is a confirmation addressed to chat c
ConfirmationSent(c) ==
  /\ sent' # <<>>
  /\ sent'[1].chat = c
  /\ SubSeq(sent'[1].text, 1, Len(NEW_MSG_SET)) = NEW_MSG_SET

\* C16: the template write is awaited before the confirmation: a confirmation
\* for template T is sent to a chat only by a handler that has written T to
\* the chat's durable record in an earlier step of its own, and the mirror
\* entry of the chat holds T when the confirmation is sent.
C16_WriteBeforeConfirmation ==
  [][\A c \in Groups :
       /\ ConfirmationSent(c)
          => \E h \in Slots :
               /\ handlers[h].pc = "setItemDone"
               /\ handlers[h].chat = c
               /\ handlers'[h] = Idle
               /\ sent' = Confirmation(c, handlers[h].msgTemplate, handlers[h].from)
               /\ msgTemplates'[c] = Some(handlers[h].msgTemplate)
       /\ \A h \in Slots :
            (handlers'[h].pc = "setItemDone" /\ handlers'[h].chat = c /\ Steps(h))
            => /\ handlers[h].pc = "setItem"
               /\ handlers'[h] = [handlers[h] EXCEPT !.pc = "setItemDone"]
               /\ TemplateRecord(c)' = Some(handlers[h].msgTemplate)
               /\ sent' = <<>>]_vars

C16_Witness ==
  \E c \in Groups :
    /\ sent = Confirmation(c, <<"a">>, Ana)
    /\ msgTemplates[c] = Some(<<"a">>)
    /\ TemplateRecord(c) = Some(<<"a">>)

\* ------------------------------------------------------------------------
\* templates and owners

\* C17: whenever no handler of a chat is in flight, the chat has a durable
\* template record or a non-default mirror entry only if it has an owner
\* record, whatever the interleaving of the change handler with the handler of
\* the bot's removal.
C17_TemplateOnlyWithOwner ==
  \A c \in Groups :
    (/\ InFlight(c) = {}
     /\ \/ TemplateRecord(c) # None
        \/ msgTemplates[c] \notin {None, Some(DEFAULT_MSG_TEMPLATE)})
    => OwnerRecord(c) # None

\* ------------------------------------------------------------------------
\* isolation of chats

\* the step is a handler's step for an update of chat c: the continuation of
\* a handler suspended for c, the dispatch of an update of c that suspends a
\* handler, or the dispatch of an update of c whose handler returns at once
HandlerStepOf(c) ==
  \/ \E h \in Slots : handlers[h].pc # "idle" /\ handlers[h].chat = c /\ Steps(h)
  \/ \E h \in Slots : handlers[h].pc = "idle" /\ handlers'[h].chat = c /\ Steps(h)
  \/ /\ UNCHANGED handlers
     /\ \/ \E from \in Users, members \in IsolationMemberLists :
             isGroup(c) /\ NewChatMembers(c, from, members)
        \/ \E from \in Users, arg \in IsolationArgs : ChangeWelcomeMessage(c, from, arg)

\* C18: a handler invoked for an update of chat c writes only the records and
\* the mirror entry keyed by c, reads the owner and the template from the
\* records keyed by c, and sends messages only to c; the records and mirror
\* entries of every other chat are unchanged by its steps, also when handlers
\* of different chats interleave.
C18_HandlersIsolatedPerChat ==
  [][\A c \in IsolationGroups :
       HandlerStepOf(c)
       => /\ \A k \in IsolationKeys : k[1] # c => storage'[k] = storage[k]
          /\ \A d \in IsolationGroups \ {c} : msgTemplates'[d] = msgTemplates[d]
          /\ sent' = <<>> \/ sent'[1].chat = c
          /\ \A h \in Slots :
               (handlers[h].chat = c /\ Steps(h))
               => /\ handlers[h].pc = "getOwnerId"
                       => handlers'[h].ownerId = storage[<<c, "_owner_id">>]
                  /\ handlers[h].pc = "getItem"
                       => handlers'[h].storedTemplate = storage[<<c, "_msg_template">>]]_vars

\* a handler of group 2 has stored its owner while group 1 has another owner
\* and a template of its own
C18_Witness ==
  /\ storage[<<1, "_owner_id">>] = Some(Ana.id)
  /\ storage[<<2, "_owner_id">>] = Some(Bob.id)
  /\ storage[<<1, "_msg_template">>] = Some(<<"a">>)
  /\ storage[<<2, "_msg_template">>] = None
  /\ sent # <<>> /\ sent[1].chat = 2

\* ------------------------------------------------------------------------
\* a failing template write

\* C19: when the durable write of setMsgTemplate fails, the mirror entry of
\* the chat is unchanged, the change handler sends no confirmation (it sends
\* nothing and ends, so none follows), and the failure propagates out of the
\* handler. A handler goes on from its write only when the write took effect.
C19_FailedWriteLeavesMirror ==
  [][\A h \in Slots, c \in Groups :
       (handlers[h].pc = "setItem" /\ handlers[h].chat = c /\ Steps(h))
       => \/ /\ rejected' = None
             /\ handlers'[h].pc = "setItemDone"
             /\ TemplateRecord(c)' = Some(handlers[h].msgTemplate)
          \/ /\ rejected' = Some("setItem")
             /\ handlers'[h] = Idle
             /\ UNCHANGED <<storage, msgTemplates>>
             /\ sent' = <<>>]_vars

\* the owner's write of a template failed: the handler is gone, the owner
\* record is there, and neither the mirror nor the record holds a template
C19_Witness ==
  \E c \in Groups :
    /\ rejected = Some("setItem")
    /\ InFlight(c) = {}
    /\ OwnerRecord(c) # None
    /\ msgTemplates[c] = None
    /\ TemplateRecord(c) = None
    /\ sent = <<>>

\* ------------------------------------------------------------------------
\* stored templates

\* a non-empty text without leading or trailing whitespace
Trimmed(t) == t # <<>> /\ Head(t) # " " /\ t[Len(t)] # " "

\* C20: in every reachable state every template in durable storage is a
\* non-empty text without leading or trailing whitespace, and every mirror
\* entry is such a text or the built-in default template.
C20_StoredTemplatesTrimmed ==
  \A c \in Chats :
    /\ TemplateRecord(c) # None => Trimmed(TemplateRecord(c)[1])
    /\ msgTemplates[c] # None
         => \/ Trimmed(msgTemplates[c][1])
            \/ msgTemplates[c][1] = DEFAULT_MSG_TEMPLATE

\* a template set by a command is in storage while the mirror holds the default
C20_Witness ==
  \E c \in Groups :
    /\ TemplateRecord(c) = Some(<<"a", "a">>)
    /\ msgTemplates[c] = Some(DEFAULT_MSG_TEMPLATE)
====
